---- MODULE Spec2Model ----
(***************************************************************************)
(* Model of tfx/orchestration/portable/execution_publish_utils.py: the     *)
(* five caller-facing operations that register an execution in the         *)
(* metadata store (MLMD) and publish its outcome.                          *)
(*                                                                         *)
(* The state is the store (the execution records and the execution /       *)
(* artifact events), the caller's in-memory artifact objects (their        *)
(* `state` field, which publish_succeeded_execution assigns in place), and *)
(* the observation of the last call: its arguments, what it passed to the  *)
(* store, what it returned or raised.  Every action is one whole call.     *)
(*                                                                         *)
(* An optional value (Optional[...] in the source) is a sequence: None is  *)
(* <<>> and a present value x is <<x>>.  An ArtifactMultiMap is a function *)
(* from a set of channel keys to sequences of artifacts.                   *)
(***************************************************************************)
EXTENDS Integers, Sequences, FiniteSets, TLC

VARIABLES
  executions,      \* the store's execution records; the record with id i is executions[i]
  events,          \* the store's events: links execution <-> artifact with a role
  artifact_state,  \* in-memory `state` field of every artifact object
  calls,           \* number of calls made so far (also the source of uuid4 values)
  last             \* observation of the last call

vars == <<executions, events, artifact_state, calls, last>>

----------------------------------------------------------------------------
(* Bounds of the model. *)

\* Calls per behaviour.
MaxCalls == 3

\* Calls per behaviour when the calls vary the artifact maps.
MaxArtifactCalls == 2

\* Largest batch handed to publish_cached_executions.
MaxBatch == 2

----------------------------------------------------------------------------
(* Values. *)

None == <<>>
Some(x) == <<x>>
IsNone(o) == Len(o) = 0
Get(o) == o[1]

\* Artifact objects.  a1, a2 are the system-generated output skeleton's,
\* a3 is the one the executor reports back.
DeclaredArtifacts == {"a1", "a2"}
ReportedArtifacts == {"a3"}
Artifacts == DeclaredArtifacts \cup ReportedArtifacts

\* The artifact's type name; an object never changes its type.
ArtifactType(a) == IF a \in {"a1", "a3"} THEN "X" ELSE "Y"

ArtifactStates == {"PENDING", "REFERENCE", "PUBLISHED"}

Keys == {"k1", "k2"}

ExecutionStates == {"NEW", "RUNNING", "COMPLETE", "CACHED", "FAILED"}

ExecutionTypes == {"T1", "T2"}

EventTypes == {"INPUT", "OUTPUT", "INTERNAL_OUTPUT"}

\* No execution name (an execution that was not made by register_execution).
NoName == ""

\* An execution object that has no id yet (not in the store).
NoId == 0

EmptyMap == [k \in {} |-> <<>>]

Range(s) == {s[i] : i \in DOMAIN s}

\* The artifacts of an artifact map.
ArtifactsOf(m) == UNION {Range(m[k]) : k \in DOMAIN m}

\* The (key, artifact) pairs of an artifact map.
Links(m) == UNION {{<<k, a>> : a \in Range(m[k])} : k \in DOMAIN m}

EmptyResult == [code |-> 0, result_message |-> "", metadata_details |-> ""]

----------------------------------------------------------------------------
(* The collaborators the module calls.  Their code is not part of the      *)
(* module under study; they are modelled from the specification's words.   *)

\* json_format.MessageToJson of an ExecutionResult: a field with its default
\* value is left out of the text.
MessageToJson(result) ==
  "{" \o (IF result.code # 0 THEN "code:" \o ToString(result.code) \o ";" ELSE "")
      \o (IF result.result_message # "" THEN "msg:" \o result.result_message \o ";" ELSE "")
      \o (IF result.metadata_details # "" THEN "details:" \o result.metadata_details \o ";" ELSE "")
      \o "}"

\* The custom property under which the execution result is kept
\* ("Sets execution result as a custom property of the execution").
EXECUTION_RESULT_KEY == "__execution_result__"

PropKeys == {"p", EXECUTION_RESULT_KEY}

\* execution[key] = value on a property map.
SetProperty(props, key, value) ==
  [k \in DOMAIN props \cup {key} |-> IF k = key THEN value ELSE props[k]]

\* execution_lib.set_execution_result: the result, serialized, becomes the
\* execution's result property.
set_execution_result(execution_result, execution) ==
  [execution EXCEPT !.custom_properties =
      SetProperty(@, EXECUTION_RESULT_KEY, MessageToJson(execution_result))]

\* merge_utils.merge_updated_output_artifacts (spec 4.2): [ok, value].
\* An absent skeleton is the empty skeleton; an absent update returns the
\* skeleton; a key of the update that the skeleton lacks, or an updated
\* artifact whose type differs from the declared type of the channel, is a
\* MergeError; an updated key's list is replaced whole; the other keys pass
\* through.
merge_updated_output_artifacts(original_output_artifacts, updated_output_artifacts) ==
  LET original == IF IsNone(original_output_artifacts) THEN EmptyMap
                  ELSE Get(original_output_artifacts)
  IN IF IsNone(updated_output_artifacts) THEN [ok |-> TRUE, value |-> original]
     ELSE LET updated == Get(updated_output_artifacts)
              unknown_key == \E k \in DOMAIN updated : k \notin DOMAIN original
              type_changed ==
                \E k \in DOMAIN updated \cap DOMAIN original :
                  \E u \in Range(updated[k]), o \in Range(original[k]) :
                    ArtifactType(u) # ArtifactType(o)
          IN IF unknown_key \/ type_changed THEN [ok |-> FALSE, value |-> EmptyMap]
             ELSE [ok |-> TRUE,
                   value |-> [k \in DOMAIN original |->
                                IF k \in DOMAIN updated THEN updated[k] ELSE original[k]]]

\* metadata_handle.store.get_executions_by_id: the records that have one of
\* the ids.  A store that breaks its contract ("dup") answers a record twice.
RECURSIVE get_executions_by_id(_, _, _)
get_executions_by_id(store, ids, fault) ==
  IF ids = <<>> THEN <<>>
  ELSE LET id == Head(ids)
           found == IF id \in DOMAIN store THEN <<store[id]>> ELSE <<>>
       IN found \o (IF fault = "dup" THEN found ELSE <<>>)
                \o get_executions_by_id(store, Tail(ids), fault)

\* Whether the store already holds an execution of this type and name (the
\* store's uniqueness constraint on named executions).
AlreadyExists(store, execution) ==
  /\ execution.id = NoId
  /\ execution.name # NoName
  /\ \E i \in DOMAIN store :
       store[i].type = execution.type /\ store[i].name = execution.name

\* execution_lib.put_execution: one atomic upsert of the execution and of an
\* event of the given role for every artifact of the map.  An execution
\* without an id gets the next id.  [executions, events, execution].
put_execution(store, evs, execution, artifacts, event_type) ==
  LET id == IF execution.id = NoId THEN Len(store) + 1 ELSE execution.id
      written == [execution EXCEPT !.id = id]
  IN [executions |-> IF execution.id = NoId THEN Append(store, written)
                     ELSE [store EXCEPT ![id] = written],
      events |-> evs \cup {[execution_id |-> id, key |-> l[1], artifact |-> l[2],
                            type |-> event_type] : l \in Links(artifacts)},
      execution |-> written]

\* execution_lib.put_executions: the same for a batch, in one call; each
\* execution with its own map of output_artifacts_maps when that is given.
RECURSIVE put_executions(_, _, _, _)
put_executions(store, evs, batch, output_artifacts_maps) ==
  IF batch = <<>> THEN [executions |-> store, events |-> evs]
  ELSE LET artifacts == IF IsNone(output_artifacts_maps) THEN EmptyMap
                        ELSE Head(Get(output_artifacts_maps))
           rest == IF IsNone(output_artifacts_maps) THEN None
                   ELSE Some(Tail(Get(output_artifacts_maps)))
           w == put_execution(store, evs, Head(batch), artifacts, "OUTPUT")
       IN put_executions(w.executions, w.events, Tail(batch), rest)

\* execution_lib.prepare_execution: a new execution object, not yet stored.
prepare_execution(execution_type, state, exec_properties, execution_name) ==
  [id |-> NoId, type |-> execution_type, name |-> execution_name,
   last_known_state |-> state, custom_properties |-> exec_properties]

\* str(uuid.uuid4()): a text no earlier call has drawn.
uuid4 == "uuid-" \o ToString(calls + 1)

----------------------------------------------------------------------------
(* The observation of a call. *)

Args(execution_id, execution_type, last_known_state, output_artifacts, executor_output, batch) ==
  [execution_id |-> execution_id, execution_type |-> execution_type,
   last_known_state |-> last_known_state, output_artifacts |-> output_artifacts,
   executor_output |-> executor_output, batch |-> batch]

NoArgs == Args(NoId, "", None, None, None, <<>>)

\* op: the operation; outcome: "returned" or the error raised; put: the
\* number of persistence calls the operation made; entry: the artifacts'
\* states when the call began; merged: the merged output map, when the merge
\* succeeded; published: the artifact map handed to the store; loaded: the
\* store's answer to get_executions_by_id (<<>> when the operation did not
\* ask); returned_*: the return value.
Observation(op, args, outcome, put, merged, published, loaded, returned_artifacts, returned_execution) ==
  [op |-> op, args |-> args, outcome |-> outcome, put |-> put,
   entry |-> artifact_state, merged |-> merged, published |-> published,
   loaded |-> loaded, returned_artifacts |-> returned_artifacts,
   returned_execution |-> returned_execution]

\* The call raised before it reached the store.
Raised(op, args, outcome, merged) ==
  Observation(op, args, outcome, 0, merged, None, None, None, None)

----------------------------------------------------------------------------
(* execution_publish_utils.py *)

\* Faulty variant: the batch is published as COMPLETE.
CACHED_as_COMPLETE == "COMPLETE"

\* Execution.CACHED, the state publish_cached_executions assigns.
CACHED == "CACHED"

\* Execution.COMPLETE, the state publish_succeeded_execution and
\* publish_internal_execution assign.
COMPLETE == "COMPLETE"

\* Faulty variant: a failed execution is put back to RUNNING.
FAILED_as_RUNNING == "RUNNING"

\* Execution.FAILED, the state publish_failed_execution assigns.
FAILED == "FAILED"

\* register_execution's default for last_known_state.
RUNNING == "RUNNING"

\* for execution in executions: execution.last_known_state = CACHED
RECURSIVE mark_cached(_)
mark_cached(batch) ==
  IF batch = <<>> THEN <<>>
  ELSE <<[Head(batch) EXCEPT !.last_known_state = CACHED]>> \o mark_cached(Tail(batch))

publish_cached_executions(batch, output_artifacts_maps, fault) ==
  LET args == Args(NoId, "", None, None, None, batch)
      marked == mark_cached(batch)
      w == put_executions(executions, events, marked, output_artifacts_maps)
  IN /\ artifact_state' = artifact_state
     /\ IF fault = "store"
        THEN /\ UNCHANGED <<executions, events>>
             /\ last' = Observation("publish_cached_executions", args, "StoreError",
                                    1, None, output_artifacts_maps, None, None, None)
        ELSE /\ executions' = w.executions
             /\ events' = w.events
             /\ last' = Observation("publish_cached_executions", args, "returned",
                                    1, None, output_artifacts_maps, None, None, None)

\* The condition under which the result is attached.
result_not_empty(executor_output) ==
  /\ ~IsNone(executor_output)
  /\ \/ Get(executor_output).execution_result.result_message # ""
     \/ Get(executor_output).execution_result.metadata_details # ""
     \/ Get(executor_output).execution_result.code # 0

set_execution_result_if_not_empty(executor_output, execution) ==
  IF result_not_empty(executor_output)
  THEN set_execution_result(Get(executor_output).execution_result, execution)
  ELSE execution

\* Faulty variant: the loop assigns to copies, the caller's objects keep their state.
mark_published_on_copies(merged_output_artifacts, states) == states

\* The artifacts' states after the publishing loop: every artifact of the
\* merged map that is not in state REFERENCE is assigned PUBLISHED, in place.
mark_published(merged_output_artifacts, states) ==
  [a \in DOMAIN states |->
     IF a \in ArtifactsOf(merged_output_artifacts) /\ states[a] # "REFERENCE"
     THEN "PUBLISHED" ELSE states[a]]

\* One channel's list without its REFERENCE artifacts.
RECURSIVE not_reference(_, _)
not_reference(artifacts, states) ==
  IF artifacts = <<>> THEN <<>>
  ELSE (IF states[Head(artifacts)] # "REFERENCE" THEN <<Head(artifacts)>> ELSE <<>>)
         \o not_reference(Tail(artifacts), states)

\* Faulty variant: no test of the state: REFERENCE artifacts are published too.
output_artifacts_unfiltered(merged_output_artifacts, states) ==
  merged_output_artifacts

\* output_artifacts_to_publish: every key of the merged map, with the
\* artifacts that were not in state REFERENCE.
output_artifacts_to_publish(merged_output_artifacts, states) ==
  [key \in DOMAIN merged_output_artifacts |->
     not_reference(merged_output_artifacts[key], states)]

\* for key, value in executor_output.execution_properties.items():
\*   execution.custom_properties[key].CopyFrom(value)
copy_execution_properties(executor_output, execution) ==
  IF IsNone(executor_output) THEN execution
  ELSE LET props == Get(executor_output).execution_properties
       IN [execution EXCEPT !.custom_properties =
             [k \in DOMAIN @ \cup DOMAIN props |->
                IF k \in DOMAIN props THEN props[k] ELSE @[k]]]

\* Faulty variant: execution = ...get_executions_by_id([execution_id])[0] on an
\* answer that is not empty.
the_execution_first(found) ==
  IF Len(found) >= 1 THEN Some(found[1]) ELSE None

\* [execution] = metadata_handle.store.get_executions_by_id([execution_id]):
\* the one record, or nothing (the unpacking raises ValueError) when the
\* answer does not hold exactly one.
the_execution(found) ==
  IF Len(found) = 1 THEN Some(found[1]) ELSE None

\* datahub_utils.log_component_execution, called after the store write with
\* no handler around it: when the sink raises, the exception leaves
\* publish_succeeded_execution and nothing is returned.
outcome_after_log(fault) ==
  IF fault = "sink" THEN "SinkError" ELSE "returned"

\* publish_succeeded_execution from the publishing loop on, with the merged
\* map in hand.
publish_merged(execution_id, merged, executor_output, fault, args) ==
  LET op == "publish_succeeded_execution"
      to_publish == output_artifacts_to_publish(merged, artifact_state)
      answer == get_executions_by_id(executions, <<execution_id>>, fault)
      found == the_execution(answer)
  IN /\ artifact_state' = mark_published(merged, artifact_state)
     /\ IF IsNone(found)
        THEN /\ UNCHANGED <<executions, events>>
             /\ last' = Observation(op, args, "ValueError", 0, Some(merged),
                                    None, answer, None, None)
        ELSE LET loaded == Get(found)
                 execution == set_execution_result_if_not_empty(executor_output,
                                copy_execution_properties(executor_output,
                                  [loaded EXCEPT !.last_known_state = COMPLETE]))
                 w == put_execution(executions, events, execution, to_publish, "OUTPUT")
                 outcome == outcome_after_log(fault)
             IN IF fault = "store"
                THEN /\ UNCHANGED <<executions, events>>
                     /\ last' = Observation(op, args, "StoreError", 1, Some(merged),
                                            Some(to_publish), answer, None, None)
                ELSE /\ executions' = w.executions
                     /\ events' = w.events
                     /\ last' = Observation(op, args, outcome, 1, Some(merged),
                                  Some(to_publish), answer,
                                  IF outcome = "returned" THEN Some(to_publish) ELSE None,
                                  IF outcome = "returned" THEN Some(w.execution) ELSE None)

\* Faulty variant: a failed merge is caught and the skeleton is published as it is.
publish_succeeded_swallowing(execution_id, output_artifacts, executor_output, fault) ==
  LET args == Args(execution_id, "", None, output_artifacts, executor_output, <<>>)
      unpacked_output_artifacts ==
        IF IsNone(executor_output) THEN None
        ELSE Some(Get(executor_output).output_artifacts)
      merge == merge_updated_output_artifacts(output_artifacts, unpacked_output_artifacts)
      skeleton == merge_updated_output_artifacts(output_artifacts, None).value
  IN publish_merged(execution_id, IF merge.ok THEN merge.value ELSE skeleton,
                    executor_output, fault, args)

publish_succeeded_execution(execution_id, output_artifacts, executor_output, fault) ==
  LET args == Args(execution_id, "", None, output_artifacts, executor_output, <<>>)
      unpacked_output_artifacts ==
        IF IsNone(executor_output) THEN None
        ELSE Some(Get(executor_output).output_artifacts)
      merge == merge_updated_output_artifacts(output_artifacts, unpacked_output_artifacts)
  IN IF ~merge.ok
     THEN /\ UNCHANGED <<executions, events, artifact_state>>
          /\ last' = Raised("publish_succeeded_execution", args, "MergeError", None)
     ELSE publish_merged(execution_id, merge.value, executor_output, fault, args)

publish_failed_execution(execution_id, executor_output, fault) ==
  LET op == "publish_failed_execution"
      args == Args(execution_id, "", None, None, executor_output, <<>>)
      answer == get_executions_by_id(executions, <<execution_id>>, fault)
      found == the_execution(answer)
  IN /\ artifact_state' = artifact_state
     /\ IF IsNone(found)
        THEN /\ UNCHANGED <<executions, events>>
             /\ last' = Observation(op, args, "ValueError", 0, None,
                                    None, answer, None, None)
        ELSE LET loaded == Get(found)
                 execution == set_execution_result_if_not_empty(executor_output,
                                [loaded EXCEPT !.last_known_state = FAILED])
                 w == put_execution(executions, events, execution, EmptyMap, "OUTPUT")
             IN IF fault = "store"
                THEN /\ UNCHANGED <<executions, events>>
                     /\ last' = Observation(op, args, "StoreError", 1, None,
                                            None, answer, None, None)
                ELSE /\ executions' = w.executions
                     /\ events' = w.events
                     /\ last' = Observation(op, args, "returned", 1, None,
                                            None, answer, None, None)

publish_internal_execution(execution_id, output_artifacts, fault) ==
  LET op == "publish_internal_execution"
      args == Args(execution_id, "", None, output_artifacts, None, <<>>)
      answer == get_executions_by_id(executions, <<execution_id>>, fault)
      found == the_execution(answer)
      artifacts == IF IsNone(output_artifacts) THEN EmptyMap ELSE Get(output_artifacts)
  IN /\ artifact_state' = artifact_state
     /\ IF IsNone(found)
        THEN /\ UNCHANGED <<executions, events>>
             /\ last' = Observation(op, args, "ValueError", 0, None,
                                    None, answer, None, None)
        ELSE LET loaded == Get(found)
                 execution == [loaded EXCEPT !.last_known_state = COMPLETE]
                 w == put_execution(executions, events, execution, artifacts,
                                    "INTERNAL_OUTPUT")
             IN IF fault = "store"
                THEN /\ UNCHANGED <<executions, events>>
                     /\ last' = Observation(op, args, "StoreError", 1, None,
                                            Some(artifacts), answer, None, None)
                ELSE /\ executions' = w.executions
                     /\ events' = w.events
                     /\ last' = Observation(op, args, "returned", 1, None,
                                            Some(artifacts), answer, None, None)

\* Faulty variant: the execution is given no name.
exec_name_unset == NoName

\* exec_name = str(uuid.uuid4())
exec_name == uuid4

\* The store write of register_execution.  fault "store": the write fails and
\* nothing is stored.  "retry_raises" / "retry_updates": the write is applied
\* and the request is sent again.  The store finds the name of the second
\* request taken and answers AlreadyExists, or takes the request as an update
\* of the record it holds (the two behaviours the comment in the source
\* names); a request without a name is stored as one more execution.
register_execution(execution_type, input_artifacts, exec_properties, last_known_state, fault) ==
  LET op == "register_execution"
      args == Args(NoId, execution_type, last_known_state, input_artifacts, None, <<>>)
      state == IF IsNone(last_known_state) THEN RUNNING ELSE Get(last_known_state)
      execution == prepare_execution(execution_type, state, exec_properties, exec_name)
      artifacts == IF IsNone(input_artifacts) THEN EmptyMap ELSE Get(input_artifacts)
      w == put_execution(executions, events, execution, artifacts, "INPUT")
      again == put_execution(w.executions, w.events, execution, artifacts, "INPUT")
      retried == fault \in {"retry_raises", "retry_updates"}
  IN /\ artifact_state' = artifact_state
     /\ IF fault = "store"
        THEN /\ UNCHANGED <<executions, events>>
             /\ last' = Observation(op, args, "StoreError", 1, None,
                                    Some(artifacts), None, None, None)
        ELSE IF AlreadyExists(executions, execution)
        THEN /\ UNCHANGED <<executions, events>>
             /\ last' = Observation(op, args, "AlreadyExists", 1, None,
                                    Some(artifacts), None, None, None)
        ELSE IF retried /\ ~AlreadyExists(w.executions, execution)
        THEN /\ executions' = again.executions
             /\ events' = again.events
             /\ last' = Observation(op, args, "returned", 2, None,
                                    Some(artifacts), None, None, Some(again.execution))
        ELSE /\ executions' = w.executions
             /\ events' = w.events
             /\ last' = IF fault = "retry_raises"
                        THEN Observation(op, args, "AlreadyExists", 2, None,
                                         Some(artifacts), None, None, None)
                        ELSE Observation(op, args, "returned",
                                         IF retried THEN 2 ELSE 1, None,
                                         Some(artifacts), None, None, Some(w.execution))

----------------------------------------------------------------------------
(* The callers' inputs. *)

\* The artifact lists of a declared channel.
DeclaredLists == {<<>>, <<"a1">>, <<"a2">>, <<"a1", "a2">>}

\* The declared output skeletons: no key, k1, or k1 and k2, no artifact in
\* two channels.
DeclaredMaps ==
  {m \in UNION {[K -> DeclaredLists] : K \in {{}, {"k1"}, {"k1", "k2"}}} :
     \A k1 \in DOMAIN m, k2 \in DOMAIN m :
       k1 # k2 => Range(m[k1]) \cap Range(m[k2]) = {}}

\* The executor's artifact updates: none, a whole replacement of one channel
\* (by nothing or by a3).
ReportedMaps ==
  {EmptyMap, [k \in {"k1"} |-> <<>>], [k \in {"k1"} |-> <<"a3">>],
   [k \in {"k2"} |-> <<"a3">>]}

ExecutorOutput(output_artifacts, execution_properties, execution_result) ==
  [output_artifacts |-> output_artifacts,
   execution_properties |-> execution_properties,
   execution_result |-> execution_result]

\* Executor outputs that report artifacts only.
ArtifactOutputs ==
  {None} \cup {Some(ExecutorOutput(u, EmptyMap, EmptyResult)) : u \in ReportedMaps}

ExecutionResults ==
  [code : {0, 1}, result_message : {"", "m"}, metadata_details : {"", "d"}]

\* The execution properties an executor reports: none, or one under the key
\* that also holds the execution result.
ReportedProperties ==
  {EmptyMap, [k \in {EXECUTION_RESULT_KEY} |-> "v"]}

\* Executor outputs that report a result and properties, no artifacts.
ResultOutputs ==
  {None} \cup {Some(ExecutorOutput(EmptyMap, p, r)) :
                 p \in ReportedProperties, r \in ExecutionResults}

\* Executor outputs that report a result only.
ResultOnlyOutputs ==
  {None} \cup {Some(ExecutorOutput(EmptyMap, EmptyMap, r)) : r \in ExecutionResults}

\* An execution prepared by the caller and not yet stored.
PreparedExecution == prepare_execution("T1", "NEW", EmptyMap, NoName)

\* The executions of the store with these ids, in the order of the ids.
RECURSIVE StoredIn(_, _)
StoredIn(store, ids) ==
  IF store = <<>> THEN <<>>
  ELSE StoredIn(SubSeq(store, 1, Len(store) - 1), ids)
         \o (IF Len(store) \in ids THEN <<store[Len(store)]>> ELSE <<>>)

\* The batches of publish_cached_executions: executions of the store, each
\* at most once, followed by prepared executions.
Batches ==
  {StoredIn(executions, ids) \o [i \in 1..n |-> PreparedExecution] :
     ids \in {x \in SUBSET (DOMAIN executions) : Cardinality(x) <= MaxBatch},
     n \in 0..MaxBatch} \cap
  UNION {[1..n -> {PreparedExecution} \cup Range(executions)] : n \in 1..MaxBatch}

\* The ids a caller passes: the ids of the store and one that it lacks.
Ids == 1..(Len(executions) + 1)

StoredIds == 1..Len(executions)

----------------------------------------------------------------------------
(* Specifications. *)

NoCall == Observation("none", NoArgs, "none", 0, None, None, None, None, None)

\* An empty store; the artifact objects are PENDING or REFERENCE.
Init ==
  /\ executions = <<>>
  /\ events = {}
  /\ artifact_state \in [Artifacts -> {"PENDING", "REFERENCE"}]
  /\ calls = 0
  /\ last = NoCall

\* One more call, while the behaviour has calls left.
Call(max) == calls < max /\ calls' = calls + 1

\* Calls that vary the artifact maps.
Next ==
  \/ /\ Call(MaxArtifactCalls)
     /\ \E fault \in {"none", "store"} :
          register_execution("T1", None, EmptyMap, None, fault)
  \/ /\ Call(MaxArtifactCalls)
     /\ \E id \in Ids, d \in {None} \cup {Some(m) : m \in DeclaredMaps},
           eo \in ArtifactOutputs, fault \in {"none", "store"} :
          publish_succeeded_execution(id, d, eo, fault)
  \/ /\ Call(MaxArtifactCalls)
     /\ \E id \in StoredIds : publish_failed_execution(id, None, "none")
  \/ /\ Call(MaxArtifactCalls)
     /\ \E id \in StoredIds : publish_internal_execution(id, None, "none")
  \/ /\ Call(MaxArtifactCalls)
     /\ publish_cached_executions(<<PreparedExecution>>, None, "none")

Spec == Init /\ [][Next]_vars

\* An empty store; every artifact object is PENDING.
InitPending ==
  /\ executions = <<>>
  /\ events = {}
  /\ artifact_state = [a \in Artifacts |-> "PENDING"]
  /\ calls = 0
  /\ last = NoCall

\* Calls that vary the executor's result and properties, and the sink.
NextResult ==
  \/ /\ Call(MaxCalls)
     /\ \E inputs \in {None, Some([k \in {"k1"} |-> <<"a1">>])} :
          register_execution("T1", inputs, EmptyMap, None, "none")
  \/ /\ Call(MaxCalls)
     /\ \E id \in StoredIds, eo \in ResultOutputs, fault \in {"none", "sink"} :
          publish_succeeded_execution(id, None, eo, fault)
  \/ /\ Call(MaxCalls)
     /\ \E id \in StoredIds, eo \in ResultOnlyOutputs :
          publish_failed_execution(id, eo, "none")
  \/ /\ Call(MaxCalls)
     /\ \E id \in StoredIds : publish_internal_execution(id, None, "none")
  \/ /\ Call(MaxCalls)
     /\ \E maps \in {None, Some(<<[k \in {"k1"} |-> <<"a2">>]>>)} :
          publish_cached_executions(<<PreparedExecution>>, maps, "none")

SpecResult == InitPending /\ [][NextResult]_vars

\* Calls that vary the executions, their states, the ids and the store's
\* answers.
NextLifecycle ==
  \/ /\ Call(MaxCalls)
     /\ \E type \in ExecutionTypes, state \in {None, Some("NEW")},
           fault \in {"none", "store", "retry_raises", "retry_updates"} :
          register_execution(type, None, EmptyMap, state, fault)
  \/ /\ Call(MaxCalls)
     /\ \E id \in Ids, fault \in {"none", "dup"} :
          publish_succeeded_execution(id, None, None, fault)
  \/ /\ Call(MaxCalls)
     /\ \E id \in Ids, fault \in {"none", "dup"} :
          publish_failed_execution(id, None, fault)
  \/ /\ Call(MaxCalls)
     /\ \E id \in Ids, fault \in {"none", "store", "dup"} :
          publish_internal_execution(id, Some([k \in {"k1"} |-> <<"a2">>]), fault)
  \/ /\ Call(MaxCalls)
     /\ \E batch \in Batches, fault \in {"none", "store"} :
          publish_cached_executions(batch, None, fault)

SpecLifecycle == InitPending /\ [][NextLifecycle]_vars

----------------------------------------------------------------------------
(* Properties. *)

PS == "publish_succeeded_execution"
PF == "publish_failed_execution"
PI == "publish_internal_execution"
PC == "publish_cached_executions"
RE == "register_execution"

\* The call wrote to the store.
Written == last.put >= 1 /\ last.outcome \in {"returned", "SinkError"}

\* C1: in publish_succeeded_execution, every artifact of the merged map that
\* was not REFERENCE on entry is PUBLISHED after the call and is, under its
\* key, in the map handed to the store for the OUTPUT events; every artifact
\* that was REFERENCE on entry keeps its state and is not in that map.
C1_ArtifactStateRule ==
  (last.op = PS /\ ~IsNone(last.merged)) =>
    LET merged == Get(last.merged)
    IN \A k \in DOMAIN merged : \A a \in Range(merged[k]) :
         IF last.entry[a] # "REFERENCE"
         THEN /\ artifact_state[a] = "PUBLISHED"
              /\ last.put = 1 => /\ k \in DOMAIN Get(last.published)
                                 /\ a \in Range(Get(last.published)[k])
              /\ Written => [execution_id |-> last.args.execution_id, key |-> k,
                             artifact |-> a, type |-> "OUTPUT"] \in events
         ELSE /\ artifact_state[a] = "REFERENCE"
              /\ last.put = 1 => a \notin ArtifactsOf(Get(last.published))

\* A publish that returned, of a channel that holds a PENDING and a
\* REFERENCE artifact.
C1_Witness ==
  /\ last.op = PS /\ last.outcome = "returned"
  /\ \E k \in DOMAIN Get(last.merged) :
       \E a \in Range(Get(last.merged)[k]), b \in Range(Get(last.merged)[k]) :
         last.entry[a] = "PENDING" /\ last.entry[b] = "REFERENCE"

\* The merge of the call's arguments fails.
MergeFails(args) ==
  ~merge_updated_output_artifacts(args.output_artifacts,
      IF IsNone(args.executor_output) THEN None
      ELSE Some(Get(args.executor_output).output_artifacts)).ok

\* C2: when the merge of publish_succeeded_execution fails, the call ends
\* with the MergeError, makes no persistence call, and leaves the store and
\* every artifact's state as they were.
C2_MergeErrorBeforeAnyEffect ==
  [][(last'.op = PS /\ calls' = calls + 1 /\ MergeFails(last'.args)) =>
       /\ last'.outcome = "MergeError"
       /\ last'.put = 0
       /\ executions' = executions
       /\ events' = events
       /\ artifact_state' = artifact_state]_vars

\* A MergeError on an execution of the store, with a PENDING artifact in the
\* skeleton that stayed PENDING.
C2_Witness ==
  /\ last.op = PS /\ last.outcome = "MergeError"
  /\ last.args.execution_id \in DOMAIN executions
  /\ executions[last.args.execution_id].last_known_state = "RUNNING"
  /\ ~IsNone(last.args.output_artifacts)
  /\ \E a \in ArtifactsOf(Get(last.args.output_artifacts)) :
       artifact_state[a] = "PENDING"

\* The executions of a batch that have no id yet.
NewIn(batch) == {i \in DOMAIN batch : batch[i].id = NoId}

\* C3: an operation that wrote to the store left the execution in the state
\* of the operation: register_execution RUNNING, or the state the caller
\* named; publish_succeeded_execution and publish_internal_execution
\* COMPLETE; publish_failed_execution FAILED; publish_cached_executions
\* CACHED for every execution of the batch.
C3_PersistedState ==
  /\ (last.op = RE /\ last.outcome = "returned") =>
       /\ Get(last.returned_execution).id \in DOMAIN executions
       /\ executions[Get(last.returned_execution).id].last_known_state =
            (IF IsNone(last.args.last_known_state) THEN "RUNNING"
             ELSE Get(last.args.last_known_state))
  /\ (last.op \in {PS, PI} /\ Written) =>
       executions[last.args.execution_id].last_known_state = "COMPLETE"
  /\ (last.op = PF /\ Written) =>
       executions[last.args.execution_id].last_known_state = "FAILED"
  /\ (last.op = PC /\ Written) =>
       LET batch == last.args.batch
           n == Cardinality(NewIn(batch))
       IN /\ \A i \in DOMAIN batch \ NewIn(batch) :
               executions[batch[i].id].last_known_state = "CACHED"
          /\ \A j \in (Len(executions) - n + 1)..Len(executions) :
               executions[j].last_known_state = "CACHED"

\* A batch of a new execution and one the store held as FAILED, both
\* published as cached.
C3_Witness ==
  /\ last.op = PC /\ Written
  /\ \E i \in DOMAIN last.args.batch, j \in DOMAIN last.args.batch :
       /\ last.args.batch[i].id = NoId
       /\ last.args.batch[j].id # NoId
       /\ last.args.batch[j].last_known_state = "FAILED"

\* The result property of an execution, when it has one.
ResultProperty(execution) ==
  IF EXECUTION_RESULT_KEY \in DOMAIN execution.custom_properties
  THEN Some(execution.custom_properties[EXECUTION_RESULT_KEY]) ELSE None

\* C4: publish_succeeded_execution and publish_failed_execution persist the
\* executor's result as the result property when the executor output is
\* present and its message, its details or its code is set, and persist the
\* result property the loaded execution had in every other case.
C4_ResultAttachment ==
  (last.op \in {PS, PF} /\ last.outcome = "returned") =>
    LET eo == last.args.executor_output
        written == executions[last.args.execution_id]
        set == /\ ~IsNone(eo)
               /\ Get(eo).execution_result # EmptyResult
    IN IF set
       THEN ResultProperty(written) = Some(MessageToJson(Get(eo).execution_result))
       ELSE ResultProperty(written) = ResultProperty(last.loaded[1])

\* C5: a failure of log_component_execution after the store write does not
\* fail publish_succeeded_execution: the call returns the artifacts and the
\* execution, and the execution stays COMPLETE in the store.
C5_SinkFailureSwallowed ==
  (last.op = PS /\ Written) =>
    /\ last.outcome = "returned"
    /\ ~IsNone(last.returned_artifacts)
    /\ ~IsNone(last.returned_execution)
    /\ executions[last.args.execution_id].last_known_state = "COMPLETE"

\* C6: publish_succeeded_execution returns the merged map, every artifact of
\* it, also those in state REFERENCE, and the execution the store wrote.
C6_ReturnsMergedMap ==
  (last.op = PS /\ last.outcome = "returned") =>
    /\ DOMAIN Get(last.returned_artifacts) = DOMAIN Get(last.merged)
    /\ \A k \in DOMAIN Get(last.merged) :
         Range(Get(last.merged)[k]) \subseteq Range(Get(last.returned_artifacts)[k])
    /\ Get(last.returned_execution) = executions[last.args.execution_id]

Terminal == {"COMPLETE", "FAILED", "CACHED"}

\* C7 as claimed: once a registered execution is in a terminal state, no
\* later publish_succeeded, publish_failed or publish_internal call changes
\* its persisted state.
C7_TerminalStateWrittenOnce ==
  [][\A i \in DOMAIN executions :
       (/\ executions[i].name # NoName
        /\ executions[i].last_known_state \in Terminal
        /\ last'.op \in {PS, PF, PI}) =>
         executions'[i].last_known_state = executions[i].last_known_state]_vars

\* C7 as amended: no record is deleted, and a record in a terminal state
\* stays in a terminal state, though a later publish may move it to another
\* terminal state.
C7_TerminalStaysTerminal ==
  [][\A i \in DOMAIN executions :
       /\ i \in DOMAIN executions'
       /\ executions[i].last_known_state \in Terminal =>
            executions'[i].last_known_state \in Terminal]_vars

\* publish_failed_execution on an execution the store held as COMPLETE.
C7_Witness ==
  /\ last.op = PF /\ Written
  /\ last.loaded[1].last_known_state = "COMPLETE"
  /\ executions[last.args.execution_id].last_known_state = "FAILED"

\* C8 as claimed: register_execution called again with the arguments of the
\* call before it, which returned, is answered AlreadyExists by the store and
\* adds no execution (the second call's request is sent once and reaches the
\* store).
C8_SecondRegistrationDetected ==
  [][(/\ last.op = RE /\ last.outcome = "returned"
      /\ last'.op = RE /\ calls' = calls + 1
      /\ last'.args = last.args
      /\ last'.put = 1 /\ last'.outcome # "StoreError") =>
       /\ last'.outcome = "AlreadyExists"
       /\ Len(executions') = Len(executions)]_vars

\* C8 as amended: a register_execution call whose write reaches the store
\* adds exactly one execution, also when its request is sent twice, and the
\* named executions of one type have different names.
C8_OneRecordPerCall ==
  [][(last'.op = RE /\ calls' = calls + 1) =>
       /\ Len(executions') =
            Len(executions) + (IF last'.outcome = "StoreError" THEN 0 ELSE 1)
       /\ \A i \in DOMAIN executions', j \in DOMAIN executions' :
            (/\ i # j
             /\ executions'[i].type = executions'[j].type
             /\ executions'[i].name # NoName) =>
              executions'[i].name # executions'[j].name]_vars

\* A registration whose request was sent twice, in a store that holds two
\* registered executions of that type.
C8_Witness ==
  /\ last.op = RE /\ last.put = 2 /\ last.outcome = "returned"
  /\ \E i \in DOMAIN executions, j \in DOMAIN executions :
       /\ i # j
       /\ executions[i].type = executions[j].type
       /\ executions[i].name # NoName /\ executions[j].name # NoName

\* The call asked the store for the execution.
Asked(obs) == obs.op \in {PF, PI} \/ (obs.op = PS /\ ~IsNone(obs.merged))

\* C9: when the store answers the load by id with no record or with more
\* than one, publish_succeeded_execution, publish_failed_execution and
\* publish_internal_execution end with the error, make no persistence call,
\* and leave the executions and the events of the store as they were.
C9_LoadMustFindExactlyOne ==
  [][(Asked(last') /\ calls' = calls + 1 /\ Len(last'.loaded) # 1) =>
       /\ last'.outcome = "ValueError"
       /\ last'.put = 0
       /\ executions' = executions
       /\ events' = events]_vars

\* A load that the store answered with two records.
C9_Witness ==
  /\ last.op \in {PS, PF, PI}
  /\ last.outcome = "ValueError"
  /\ Len(last.loaded) = 2

\* C10: when the merge succeeded and the load or the store write failed, the
\* artifacts of the merged map that were not REFERENCE are PUBLISHED in
\* memory, while the store holds the executions and the events it held.
C10_NoRollbackOfArtifactStates ==
  [][(/\ last'.op = PS /\ calls' = calls + 1
      /\ last'.outcome \in {"ValueError", "StoreError"}) =>
       /\ ~IsNone(last'.merged)
       /\ \A a \in ArtifactsOf(Get(last'.merged)) :
            artifact_state[a] # "REFERENCE" => artifact_state'[a] = "PUBLISHED"
       /\ executions' = executions
       /\ events' = events]_vars

\* A store write that failed: the artifact went from PENDING to PUBLISHED,
\* the execution is RUNNING and has no event.
C10_Witness ==
  /\ last.op = PS /\ last.outcome = "StoreError"
  /\ \E a \in ArtifactsOf(Get(last.merged)) :
       last.entry[a] = "PENDING" /\ artifact_state[a] = "PUBLISHED"
  /\ executions[last.args.execution_id].last_known_state = "RUNNING"
  /\ events = {}

====
